---- MODULE Spec2Model ----
(***************************************************************************)
(* Guard (src/guardrails/guard.py): the routing of one invocation through  *)
(* _execute to remote delegation (_call_server), AsyncRunner, StreamRunner *)
(* or Runner, the Call it pushes on the Guard's history, and the           *)
(* ValidationOutcome handed back to the caller.                            *)
(***************************************************************************)
EXTENDS Integers, Sequences, FiniteSets, TLC

\* ---------------------------------------------------------------- bounds
MaxCalls  == 1      \* Calls an exploration lets the history hold
MaxReasks == 1      \* largest retry budget a caller passes
MaxRemote == 2      \* per-round records in one remote response
MaxChunks == 2      \* chunks of one streamed generation
MaxValidators == 3  \* validators an exploration registers on one Guard

\* ---------------------------------------------------------------- values
None      == "None"             \* Python's None, for string-valued slots
NoReasks  == -1                 \* num_reasks=None
Inv       == {1, 2}             \* invocation slots (threads / tasks of the caller)
Callers   == {1}                \* the slots a single-threaded caller uses

Keys      == {"k1", "k2"}       \* metadata keys a validator may require

\* llm_api: no target, or a callable that is (a)synchronous and is or is not
\* recognised by model_is_supported_server_side.
Targets    == {None, "sync", "sync_srv", "async", "async_srv"}
Outputs    == {None, "", "out"}         \* llm_output: Optional[str]
Prompts    == {None, "p"}               \* prompt: Optional[str]
Histories  == {None, "[]", "[m]"}       \* msg_history: Optional[List[Dict]]
Budgets    == {NoReasks} \cup (0..MaxReasks)

\* Python truthiness of an optional string or list argument.
Truthy(x) == x \notin {None, "", "[]"}

\* asyncio.iscoroutinefunction(llm_api)
iscoroutinefunction(t) == t \in {"async", "async_srv"}

\* model_is_supported_server_side(llm_api, *args, **kwargs)
model_is_supported_server_side(t) == t \in {"sync_srv", "async_srv"}

\* One generate+validate round as the history keeps it: Outputs.raw_output,
\* the validated output and the number of FieldReAsk entries.
PassRound == [raw_output |-> "a", validated_output |-> "a",  reasks |-> 0]
FailRound == [raw_output |-> "b", validated_output |-> None, reasks |-> 1]
Rounds    == {PassRound, FailRound}

SeqsUpTo(S, n) == UNION {[1..k -> S] : k \in 0..n}

\* ------------------------------------------------------------ requests
\* The arguments of one _execute call are immutable and independent of one
\* another, so each enters the state at the statement that first reads it and
\* leaves it after the last statement that reads it:
\*   llm_api, llm_output, prompt, msg_history   the routing preconditions
\*   metadata (the keys of the map)             the metadata check
\*   num_reasks                                 __exec, _set_num_reasks
\*   stream (kwargs.get("stream", False))       _exec_sync
RoutingArgs == [llm_api : Targets, llm_output : Outputs, prompt : Prompts,
                msg_history : Histories]
Metadatas   == SUBSET Keys

\* What __exec and the strategies read of the request.
Passed(a)  == [llm_api |-> a.llm_api, llm_output |-> a.llm_output,
               num_reasks |-> NoReasks, stream |-> FALSE]
IdleReq    == [llm_api |-> None, llm_output |-> None,
               num_reasks |-> NoReasks, stream |-> FALSE]

\* ---------------------------------------------------- remote responses
\* A per-round record of the remote history; reasks = -1 is h.reasks None.
RemotePass    == [output |-> "a", validated_output |-> "a",  reasks |-> -1]
RemoteFail    == [output |-> "b", validated_output |-> None, reasks |-> 1]
RemoteRecords == {RemotePass, RemoteFail}

\* One entry of session_history: history.history is None, or a list.
SessionEntries ==
    {[has_events |-> FALSE, events |-> <<>>]} \cup
    {[has_events |-> TRUE, events |-> e] : e \in SeqsUpTo(RemoteRecords, MaxRemote)}

RECURSIVE CountEvents(_)
CountEvents(sh) ==
    IF sh = <<>> THEN 0 ELSE Len(Head(sh).events) + CountEvents(Tail(sh))

SessionHistories ==
    {sh \in SeqsUpTo(SessionEntries, 2) : CountEvents(sh) <= MaxRemote}

\* What api_client.validate returns: nothing (empty), or a validation output.
EmptyResponse ==
    [empty |-> TRUE, result |-> FALSE, validated_output |-> None,
     raw_llm_response |-> None, session_history |-> <<>>]
Responses ==
    {EmptyResponse} \cup
    {[empty |-> FALSE, result |-> t[1], validated_output |-> t[2],
      raw_llm_response |-> t[3], session_history |-> sh] :
        t \in {<<TRUE, "a", "a">>, <<FALSE, None, "b">>},
        sh \in SessionHistories}

\* ------------------------------------------------------- pure operators
\* Faulty variant: the second precondition is missing.
RoutingErrorFirstOnly(a) ==
    IF ~Truthy(a.llm_api) /\ ~Truthy(a.llm_output)
    THEN "'llm_api' or 'llm_output' must be provided!"
    ELSE "ok"

\* _execute, the two routing preconditions (the first that fails raises).
RoutingError(a) ==
    IF ~Truthy(a.llm_api) /\ ~Truthy(a.llm_output)
    THEN "'llm_api' or 'llm_output' must be provided!"
    ELSE IF ~Truthy(a.llm_output) /\ Truthy(a.llm_api)
            /\ ~(Truthy(a.prompt) \/ Truthy(a.msg_history))
    THEN "'prompt' or 'msg_history' must be provided in order to call an LLM!"
    ELSE "ok"

\* A validator is the set of metadata keys it requires.
KeyOrder == <<"k1", "k2">>
RequiredKeys(vs) == UNION {vs[n] : n \in DOMAIN vs}

\* verify_metadata_requirements(metadata, validators): the required keys the
\* metadata map lacks, as a list.
verify_metadata_requirements(metadata, vs) ==
    SelectSeq(KeyOrder, LAMBDA k : k \in RequiredKeys(vs) /\ k \notin metadata)

\* Faulty variant: the message names the first missing key only.
MissingKeysFirst(missing_keys) == <<Head(missing_keys)>>

\* The ValueError of a failed metadata check: the keys its message names.
MissingKeysMessage(missing_keys) == missing_keys

\* Faulty variant: every target is delegated once a client is configured.
UseServerAnyTarget(client, llm_api) == client

\* __exec: is the invocation delegated to the remote service?
UseServer(client, llm_api) ==
    client /\ model_is_supported_server_side(llm_api)

\* Faulty variant: the stream flag is not looked at.
ExecSyncNoStream(stream) == {"sync"}

\* _exec_sync: StreamRunner when kwargs ask for a stream, else Runner.
ExecSyncRunner(stream) == IF stream THEN {"stream"} ELSE {"sync"}

\* Faulty variant: _call_server is called without `return`: control falls through
\* to the local strategies.
RoutedFallThrough(client, r) ==
    (IF UseServer(client, r.llm_api) THEN {"remote"} ELSE {})
    \cup (IF iscoroutinefunction(r.llm_api) THEN {"async"}
          ELSE ExecSyncRunner(r.stream))

\* __exec: the strategies the invocation enters.
Routed(client, r) ==
    IF UseServer(client, r.llm_api) THEN {"remote"}
    ELSE IF iscoroutinefunction(r.llm_api) THEN {"async"}
    ELSE ExecSyncRunner(r.stream)

\* A ValidationOutcome.
Outcome(raw, validated, passed, err) ==
    [raw_llm_output |-> raw, validated_output |-> validated,
     validation_passed |-> passed, error |-> err]

\* ValidationOutcome.from_guard_history(call): the projection of the last
\* Iteration.
from_guard_history(call) ==
    LET last == call.iterations[Len(call.iterations)]
    IN  Outcome(last.raw_output, last.validated_output, last.reasks = 0, None)

\* _call_server, an empty response.
EmptyResponseError == "The response from the server was empty!"
\* Faulty variant: the empty response is reported without an error.
EmptyResponseNoError == Outcome(None, None, FALSE, None)
EmptyResponseOutcome == Outcome(None, None, FALSE, EmptyResponseError)

\* _call_server: is the response treated as empty?
IsEmptyResponse(resp) == resp.empty

\* _call_server, the outcome of a response that is not empty.
ServerOutcome(resp) ==
    Outcome(resp.raw_llm_response, resp.validated_output, resp.result, None)

\* _call_server: the Iteration built from one remote record.
ToIteration(h) ==
    [raw_output |-> h.output, validated_output |-> h.validated_output,
     reasks |-> IF h.reasks = -1 THEN 0 ELSE h.reasks]

\* Faulty variant: the record's outputs are read without the type test.
BuildIterationNeverRaises(h) == FALSE

\* _call_server: building the Iteration of a record evaluates
\* isinstance(h.parsed_output, Any) with typing.Any, which raises TypeError
\* whatever the record holds.
BuildIterationRaises(h) == TRUE

\* _call_server: the entries of the remote history the loop gets through: all
\* of them, or those before the first entry with a record whose Iteration
\* cannot be built.
RECURSIVE MergedEntries(_)
MergedEntries(sh) ==
    IF sh = <<>> THEN <<>>
    ELSE LET e == Head(sh)
         IN  IF e.has_events
                /\ \E n \in DOMAIN e.events : BuildIterationRaises(e.events[n])
             THEN <<>>
             ELSE <<e>> \o MergedEntries(Tail(sh))

\* The error that ends the merge loop early.
MergeError == "typing.Any cannot be used with isinstance()"

\* _call_server: the Iterations the merge appends, entry by entry.
RECURSIVE MergedIterations(_)
MergedIterations(sh) ==
    IF sh = <<>> THEN <<>>
    ELSE LET e == Head(sh)
             its == [n \in 1..Len(e.events) |-> ToIteration(e.events[n])]
         IN  (IF e.has_events THEN its ELSE <<>>) \o MergedIterations(Tail(sh))

\* Faulty variant: the merge pushes the Call whatever the history holds.
MergePushAlways(length) == TRUE

\* _call_server, after an entry of the remote history is merged:
\* `if self._history.length == 0: self._history.push(call_log)`.
MergePush(length) == length = 0

\* Faulty variant: the runner is built with one round more than the budget.
RunnerBudgetPlusOne(num_reasks) == num_reasks + 1

\* _exec_sync / _exec_async: Runner(num_reasks=num_reasks, ...).
RunnerBudget(num_reasks) == num_reasks

\* Guard.history = h: the stacks a caller assigns (a fresh Stack()).
Stacks == {<<>>}

\* Runner / AsyncRunner: after round `index`, is another round run?
do_loop(index, reasks, num_reasks) ==
    IF index >= num_reasks THEN FALSE ELSE reasks > 0

\* __exec: `if self._num_reasks is None: raise RuntimeError(...)`, the
\* message without its backquotes.
NumReasksNoneError ==
    "num_reasks is None after calling configure(). This should never happen."

\* Faulty variant: the test is missing.
NumReasksNeverNone(n) == FALSE

\* __exec: `if self._num_reasks is None`.
NumReasksIsNone(n) == n = NoReasks

\* full_schema_reask: Optional[bool], as "None", "True" or "False".
FsrArgs == {None, "True", "False"}

\* __exec: `if full_schema_reask is None:
\*              full_schema_reask = self._base_model is not None`.
\* _base_model is declared without a value and assigned by from_pydantic
\* alone; on any other Guard the read raises AttributeError.
ResolveFsr(f, base_model_set) ==
    IF f = None THEN (IF base_model_set THEN "True" ELSE "AttributeError")
    ELSE f

\* Execution contexts: the caller's own, and the contextvars.Context() that
\* _execute creates for invocation i.  A context holds the call kwargs of the
\* invocation that stored them last, or nothing.
CallerContext == 0
Unset == 0
Contexts == {CallerContext} \cup Inv

\* Faulty variant: __exec runs in the caller's context.
GuardContextOfCaller(i) == CallerContext

\* _execute: guard_context = contextvars.Context(); guard_context.run(__exec).
GuardContext(i) == i

\* The context a strategy's work runs in: inside guard_context.run for the
\* remote call and for Runner; the coroutine of _exec_async and the generator
\* of StreamRunner run when the caller awaits or drains them, in the caller's
\* context.
WorkContext(i, s) ==
    IF s \cap {"async", "stream"} # {} THEN CallerContext ELSE GuardContext(i)

\* Faulty variant: the strategy works on the most recent Call of the history.
StrategyCallLatest(call, hist) ==
    IF hist = <<>> THEN call ELSE hist[Len(hist)]

\* __exec: the Call handed to the strategy (call_log=call_log).
StrategyCall(call, hist) == call

\* ================================================================= state
VARIABLES
    api_client,        \* Guard._api_client is configured (GUARDRAILS_API_KEY set)
    validators,        \* Guard._validators
    guard_num_reasks,  \* Guard._num_reasks
    heap,              \* the Call objects created so far, by object id
    history,           \* Guard._history: the ids of the Calls pushed
    pc,                \* where each invocation stands
    checked,           \* the arguments the routing preconditions examined
    metadata,          \* the metadata keys the metadata check examined
    req,               \* the arguments __exec runs with
    call_log,          \* the id of the invocation's Call (0: none)
    strategy,          \* the strategies the invocation entered
    budget,            \* num_reasks as handed to the strategy
    round,             \* index of the runner's next round
    remote_calls,      \* calls of api_client.validate
    gen_calls,         \* calls of the generation target
    response,          \* "none", or what the remote service answered
    returned,          \* what _execute handed to, or raised at, the caller
    errmsg,            \* the keys a metadata error names
    outcome,           \* the ValidationOutcome produced, if any
    yielded,           \* partial outcomes a stream has produced
    threads,           \* the caller's threads (or tasks) that use the Guard
    base_model,        \* Guard._base_model is assigned (built by from_pydantic)
    configured,        \* the retry budget last asked of configure(), if any
    validator_map,     \* Guard._validator_map: path -> validators
    output_type,       \* Guard._output_type
    use_result,        \* how the last use / use_many ended
    context,           \* per execution context: whose call kwargs it holds
    seen,              \* the call kwargs the invocation's work has read
    entry,             \* the public method the invocation came through
    fsr,               \* full_schema_reask: the argument, then its resolution
    strategy_fsr,      \* full_schema_reask as handed to the strategy
    remote_history     \* the session history the merge of _call_server was given

guard_vars == <<api_client, validators, guard_num_reasks, heap, history>>
inv_vars   == <<pc, checked, metadata, req, call_log, strategy, budget, round,
                remote_calls, gen_calls, response, returned, errmsg,
                outcome, yielded>>
cfg_vars   == <<threads, base_model, configured, validator_map, output_type,
                use_result>>
ctx_vars   == <<context, seen, entry, fsr, strategy_fsr, remote_history>>
vars       == <<guard_vars, inv_vars, cfg_vars, ctx_vars>>

\* The public method an invocation came through, whether the caller gave it a
\* retry budget, the full_schema_reask the caller gave and the Guard's
\* _num_reasks when the method was entered; method "none" for _execute itself.
IdleEntry == [method |-> "none", budget_given |-> FALSE,
              full_schema_reask |-> None, num_reasks_before |-> NoReasks]

\* A validator map: the paths it has as keys, each with its validators.
EmptyMap == [path \in {} |-> <<>>]

\* The validator map of a string schema with validators vs: all on "$".
MapOf(vs) == IF vs = <<>> THEN EmptyMap ELSE [path \in {"$"} |-> vs]

\* No invocation is under way.
InvIdle ==
    /\ pc = [i \in Inv |-> "idle"]
    /\ context = [c \in Contexts |-> Unset]
    /\ seen = [i \in Inv |-> {}]
    /\ entry = [i \in Inv |-> IdleEntry]
    /\ fsr = [i \in Inv |-> None]
    /\ strategy_fsr = [i \in Inv |-> None]
    /\ remote_history = [i \in Inv |-> <<>>]
    /\ checked = [i \in Inv |-> {}]
    /\ metadata = [i \in Inv |-> {}]
    /\ req = [i \in Inv |-> IdleReq]
    /\ call_log = [i \in Inv |-> 0]
    /\ strategy = [i \in Inv |-> {}]
    /\ budget = [i \in Inv |-> NoReasks]
    /\ round = [i \in Inv |-> 0]
    /\ remote_calls = [i \in Inv |-> 0]
    /\ gen_calls = [i \in Inv |-> 0]
    /\ response = [i \in Inv |-> "none"]
    /\ returned = [i \in Inv |-> "nothing"]
    /\ errmsg = [i \in Inv |-> <<>>]
    /\ outcome = [i \in Inv |-> {}]
    /\ yielded = [i \in Inv |-> 0]

\* A Guard for string output as a factory leaves it: an empty history, no
\* retry budget configured, the validators of the schema the factory compiled.
GuardBuilt ==
    /\ api_client \in BOOLEAN
    /\ guard_num_reasks = NoReasks
    /\ configured = NoReasks
    /\ heap = <<>>
    /\ history = <<>>
    /\ use_result = "none"

\* Guard.__init__ and the factory, for a caller with one thread.
Init ==
    /\ GuardBuilt
    /\ validators \in {<<>>, <<{"k1"}, {"k1", "k2"}>>}
    /\ validator_map = MapOf(validators)
    /\ base_model \in BOOLEAN
    /\ output_type = (IF base_model THEN "dict" ELSE "str")
    /\ threads = Callers
    /\ InvIdle

\* The exploration creates at most MaxCalls Calls per thread of the caller.
InFlightBeforeCall == {j \in Inv : pc[j] \in {"check", "create"}}
Room ==
    Len(heap) + Cardinality(InFlightBeforeCall) < MaxCalls * Cardinality(threads)

\* ============================================================== actions
\* _execute, the routing preconditions, called with routing arguments a,
\* num_reasks=n and full_schema_reask=f.
ExecuteWith(i, a, n, f) ==
    /\ pc[i] = "idle"
    /\ checked' = [checked EXCEPT ![i] = {a}]
    /\ IF RoutingError(a) # "ok"
       THEN /\ pc' = [pc EXCEPT ![i] = "done"]
            /\ returned' = [returned EXCEPT ![i] = "RuntimeError"]
            /\ errmsg' = [errmsg EXCEPT ![i] = <<RoutingError(a)>>]
            /\ UNCHANGED <<req, fsr>>
       ELSE /\ pc' = [pc EXCEPT ![i] = "metadata"]
            /\ req' = [req EXCEPT ![i] = [Passed(a) EXCEPT !.num_reasks = n]]
            /\ fsr' = [fsr EXCEPT ![i] = f]
            /\ UNCHANGED <<returned, errmsg>>
    /\ UNCHANGED <<guard_vars, metadata, call_log, strategy, budget, round,
                   remote_calls, gen_calls, response, outcome, yielded>>
    /\ UNCHANGED <<cfg_vars, context, seen, strategy_fsr, remote_history>>

\* _execute with the defaults of its signature; num_reasks is drawn where
\* __exec first reads it.
Execute(i, a) ==
    /\ ExecuteWith(i, a, NoReasks, None)
    /\ UNCHANGED entry

\* _execute, the metadata check; when it passes, __exec is entered through
\* guard_context.run.
VerifyMetadata(i, m) ==
    /\ pc[i] = "metadata"
    /\ checked' = [checked EXCEPT ![i] = {}]
    /\ metadata' = [metadata EXCEPT ![i] = {m}]
    /\ LET missing_keys == verify_metadata_requirements(m, validators)
       IN  IF missing_keys # <<>>
           THEN /\ pc' = [pc EXCEPT ![i] = "done"]
                /\ returned' = [returned EXCEPT ![i] = "ValueError"]
                /\ errmsg' = [errmsg EXCEPT ![i] = MissingKeysMessage(missing_keys)]
           ELSE /\ pc' = [pc EXCEPT ![i] = "exec"]
                /\ UNCHANGED <<returned, errmsg>>
    /\ UNCHANGED <<guard_vars, req, call_log, strategy, budget, round,
                   remote_calls, gen_calls, response, outcome, yielded>>
    /\ UNCHANGED <<cfg_vars, ctx_vars>>

\* __exec up to self._set_num_reasks(num_reasks=num_reasks): full_schema_reask
\* is resolved and the call kwargs are stored in the current context.
ExecSetNumReasks(i, n, f) ==
    /\ pc[i] = "exec"
    /\ metadata' = [metadata EXCEPT ![i] = {}]
    /\ IF ResolveFsr(f, base_model) = "AttributeError"
       THEN /\ pc' = [pc EXCEPT ![i] = "done"]
            /\ returned' = [returned EXCEPT ![i] = "AttributeError"]
            /\ errmsg' = [errmsg EXCEPT ![i] = <<"_base_model">>]
            /\ UNCHANGED <<fsr, context, req, guard_num_reasks>>
       ELSE /\ n # NoReasks => Room
            /\ fsr' = [fsr EXCEPT ![i] = ResolveFsr(f, base_model)]
            /\ context' = [context EXCEPT ![GuardContext(i)] = i]
            /\ req' = [req EXCEPT ![i].num_reasks = n]
            /\ guard_num_reasks' = n
            /\ pc' = [pc EXCEPT ![i] = "check"]
            /\ UNCHANGED <<returned, errmsg>>
    /\ UNCHANGED <<api_client, validators, heap, history, checked, call_log,
                   strategy, budget, round, remote_calls, gen_calls,
                   response, outcome, yielded>>
    /\ UNCHANGED <<cfg_vars, seen, entry, strategy_fsr, remote_history>>

\* __exec: if self._num_reasks is None: raise RuntimeError.
ExecCheckNumReasks(i) ==
    /\ pc[i] = "check"
    /\ IF NumReasksIsNone(guard_num_reasks)
       THEN /\ pc' = [pc EXCEPT ![i] = "done"]
            /\ returned' = [returned EXCEPT ![i] = "RuntimeError"]
            /\ errmsg' = [errmsg EXCEPT ![i] = <<NumReasksNoneError>>]
       ELSE /\ pc' = [pc EXCEPT ![i] = "create"]
            /\ UNCHANGED <<returned, errmsg>>
    /\ UNCHANGED <<guard_vars, checked, metadata, req, call_log, strategy, budget,
                   round, remote_calls, gen_calls, response,
                   outcome, yielded>>
    /\ UNCHANGED <<cfg_vars, ctx_vars>>

\* __exec: call_log = Call(inputs=CallInputs(num_reasks=self._num_reasks, ...))
\* and self._history.push(call_log).
ExecCreateCall(i) ==
    /\ pc[i] = "create"
    /\ heap' = Append(heap, [num_reasks |-> guard_num_reasks,
                             full_schema_reask |-> fsr[i],
                             iterations |-> <<>>])
    /\ history' = Append(history, Len(heap) + 1)
    /\ call_log' = [call_log EXCEPT ![i] = Len(heap) + 1]
    /\ pc' = [pc EXCEPT ![i] = "route"]
    /\ UNCHANGED <<api_client, validators, guard_num_reasks, checked, metadata, req,
                   strategy, budget, round, remote_calls, gen_calls,
                   response, returned, errmsg, outcome, yielded>>
    /\ UNCHANGED <<cfg_vars, ctx_vars>>

\* __exec: the choice of the strategy.  _call_server builds the payload
\* (reading the call kwarg "api_key") and calls api_client.validate;
\* _exec_async returns a coroutine; _exec_sync returns StreamRunner's
\* generator or runs Runner on the calling thread.
ExecRoute(i, stream) ==
    /\ pc[i] = "route"
    /\ req' = [req EXCEPT ![i].stream = stream]
    /\ LET s == Routed(api_client, req'[i])
       IN  /\ strategy' = [strategy EXCEPT ![i] = s]
           /\ pc' = [pc EXCEPT ![i] =
                        IF "remote" \in s THEN "server"
                        ELSE IF "async" \in s THEN "awaitable"
                        ELSE IF "stream" \in s THEN "stream"
                        ELSE "run"]
           /\ remote_calls' = [remote_calls EXCEPT ![i] =
                                  IF "remote" \in s THEN @ + 1 ELSE @]
           /\ returned' = [returned EXCEPT ![i] =
                              IF "remote" \in s THEN @
                              ELSE IF "async" \in s THEN "coroutine"
                              ELSE IF "stream" \in s THEN "generator"
                              ELSE @]
           /\ seen' = [seen EXCEPT ![i] =
                          IF "remote" \in s
                          THEN @ \cup {context[WorkContext(i, s)]} ELSE @]
    /\ budget' = [budget EXCEPT ![i] = RunnerBudget(guard_num_reasks)]
    /\ strategy_fsr' = [strategy_fsr EXCEPT ![i] = fsr[i]]
    /\ call_log' = [call_log EXCEPT ![i] = StrategyCall(@, history)]
    /\ UNCHANGED <<guard_vars, checked, metadata, round, gen_calls,
                   response, errmsg, outcome, yielded>>
    /\ UNCHANGED <<cfg_vars, context, entry, fsr, remote_history>>

\* _call_server from the answer of api_client.validate on: an empty answer
\* ends the invocation; otherwise the remote history is merged into the
\* Call, entry by entry, and the outcome is built from the answer unless the
\* merge raised.
ServerReturn(i, resp) ==
    /\ pc[i] = "server"
    /\ LET c == call_log[i]
       IN  IF IsEmptyResponse(resp)
           THEN /\ outcome' = [outcome EXCEPT ![i] = {EmptyResponseOutcome}]
                /\ UNCHANGED <<heap, history>>
           ELSE LET merged == MergedEntries(resp.session_history)
                IN  /\ heap' = [heap EXCEPT ![c].iterations =
                                    @ \o MergedIterations(merged)]
                    /\ history' =
                           IF MergePush(Len(history))
                              /\ \E n \in DOMAIN merged : merged[n].has_events
                           THEN Append(history, c) ELSE history
                    /\ outcome' = [outcome EXCEPT ![i] =
                           IF merged = resp.session_history
                           THEN {ServerOutcome(resp)} ELSE @]
    /\ response' = [response EXCEPT ![i] = IF resp.empty THEN "empty" ELSE "payload"]
    /\ pc' = [pc EXCEPT ![i] = "done"]
    /\ LET raised == /\ ~IsEmptyResponse(resp)
                     /\ MergedEntries(resp.session_history) # resp.session_history
       IN  /\ returned' = [returned EXCEPT ![i] =
                              IF raised THEN "TypeError" ELSE "outcome"]
           /\ errmsg' = [errmsg EXCEPT ![i] =
                            IF raised THEN <<MergeError>> ELSE @]
    /\ UNCHANGED <<api_client, validators, guard_num_reasks, checked, metadata, req,
                   call_log, strategy, budget, round, remote_calls,
                   gen_calls, yielded>>
    /\ remote_history' = [remote_history EXCEPT ![i] = resp.session_history]
    /\ UNCHANGED <<cfg_vars, context, seen, entry, fsr, strategy_fsr>>

\* The caller awaits the coroutine of _exec_async: AsyncRunner starts.
Await(i) ==
    /\ pc[i] = "awaitable"
    /\ pc' = [pc EXCEPT ![i] = "run"]
    /\ UNCHANGED <<guard_vars, checked, metadata, req, call_log, strategy, budget,
                   round, remote_calls, gen_calls, response, returned,
                   errmsg, outcome, yielded>>
    /\ UNCHANGED <<cfg_vars, ctx_vars>>

\* Runner / AsyncRunner, one round: Generate (the supplied output on the
\* first round, else the target, with the call kwargs of the current
\* context), Validate, append the Iteration, decide.
RunnerStep(i, rnd) ==
    /\ pc[i] = "run"
    /\ LET c == call_log[i]
           supplied == round[i] = 0 /\ req[i].llm_output # None
       IN  /\ supplied \/ req[i].llm_api # None
           /\ gen_calls' = [gen_calls EXCEPT ![i] = IF supplied THEN @ ELSE @ + 1]
           /\ heap' = [heap EXCEPT ![c].iterations = Append(@, rnd)]
           /\ IF do_loop(round[i], rnd.reasks, budget[i])
              THEN /\ round' = [round EXCEPT ![i] = @ + 1]
                   /\ UNCHANGED <<pc, outcome, returned>>
              ELSE /\ outcome' = [outcome EXCEPT ![i] = {from_guard_history(heap'[c])}]
                   /\ pc' = [pc EXCEPT ![i] = "done"]
                   /\ returned' = [returned EXCEPT ![i] =
                                      IF @ = "coroutine" THEN @ ELSE "outcome"]
                   /\ UNCHANGED round
    /\ seen' = [seen EXCEPT ![i] = @ \cup {context[WorkContext(i, strategy[i])]}]
    /\ UNCHANGED <<api_client, validators, guard_num_reasks, history, checked,
                   metadata, req, call_log, strategy, budget, remote_calls, response,
                   errmsg, yielded>>
    /\ UNCHANGED <<cfg_vars, context, entry, fsr, strategy_fsr, remote_history>>

\* Runner / AsyncRunner: a validator with the exception policy, or a round
\* that has neither output nor target, aborts the Call.
RunnerAbort(i) ==
    /\ pc[i] = "run"
    /\ pc' = [pc EXCEPT ![i] = "aborted"]
    /\ UNCHANGED <<guard_vars, checked, metadata, req, call_log, strategy, budget,
                   round, remote_calls, gen_calls, response, returned,
                   errmsg, outcome, yielded>>
    /\ UNCHANGED <<cfg_vars, ctx_vars>>

\* StreamRunner, drained by the caller: one partial outcome per chunk.
StreamChunk(i) ==
    /\ pc[i] = "stream"
    /\ yielded[i] < MaxChunks
    /\ yielded' = [yielded EXCEPT ![i] = @ + 1]
    /\ gen_calls' = [gen_calls EXCEPT ![i] =
                        IF yielded[i] = 0 /\ req[i].llm_output = None
                        THEN @ + 1 ELSE @]
    /\ seen' = [seen EXCEPT ![i] = @ \cup {context[WorkContext(i, strategy[i])]}]
    /\ UNCHANGED <<guard_vars, pc, checked, metadata, req, call_log, strategy, budget,
                   round, remote_calls, response, returned, errmsg, outcome>>
    /\ UNCHANGED <<cfg_vars, context, entry, fsr, strategy_fsr, remote_history>>

\* StreamRunner: the stream is exhausted; its single round is recorded.
StreamEnd(i, rnd) ==
    /\ pc[i] = "stream"
    /\ yielded[i] >= 1
    /\ heap' = [heap EXCEPT ![call_log[i]].iterations = Append(@, rnd)]
    /\ pc' = [pc EXCEPT ![i] = "done"]
    /\ UNCHANGED <<api_client, validators, guard_num_reasks, history, checked,
                   metadata, req, call_log, strategy, budget, round, remote_calls,
                   gen_calls, response, returned, errmsg, outcome, yielded>>
    /\ UNCHANGED <<cfg_vars, ctx_vars>>

\* Guard.history = h, by a caller whose thread is not inside _execute.
SetHistory(i, h) ==
    /\ pc[i] \in {"idle", "awaitable", "stream", "done", "aborted"}
    /\ history' = h
    /\ UNCHANGED <<api_client, validators, guard_num_reasks, heap, inv_vars>>
    /\ UNCHANGED <<cfg_vars, ctx_vars>>

\* The caller is through with the invocation; the slot serves the next one
\* and the invocation's context is garbage.
Return(i) ==
    /\ pc[i] \in {"done", "aborted"}
    /\ pc' = [pc EXCEPT ![i] = "idle"]
    /\ checked' = [checked EXCEPT ![i] = {}]
    /\ metadata' = [metadata EXCEPT ![i] = {}]
    /\ req' = [req EXCEPT ![i] = IdleReq]
    /\ call_log' = [call_log EXCEPT ![i] = 0]
    /\ strategy' = [strategy EXCEPT ![i] = {}]
    /\ budget' = [budget EXCEPT ![i] = NoReasks]
    /\ round' = [round EXCEPT ![i] = 0]
    /\ remote_calls' = [remote_calls EXCEPT ![i] = 0]
    /\ gen_calls' = [gen_calls EXCEPT ![i] = 0]
    /\ response' = [response EXCEPT ![i] = "none"]
    /\ returned' = [returned EXCEPT ![i] = "nothing"]
    /\ errmsg' = [errmsg EXCEPT ![i] = <<>>]
    /\ outcome' = [outcome EXCEPT ![i] = {}]
    /\ yielded' = [yielded EXCEPT ![i] = 0]
    /\ context' = [context EXCEPT ![i] = Unset]
    /\ seen' = [seen EXCEPT ![i] = {}]
    /\ entry' = [entry EXCEPT ![i] = IdleEntry]
    /\ fsr' = [fsr EXCEPT ![i] = None]
    /\ strategy_fsr' = [strategy_fsr EXCEPT ![i] = None]
    /\ remote_history' = [remote_history EXCEPT ![i] = <<>>]
    /\ UNCHANGED <<guard_vars, cfg_vars>>

\* ======================================================= specifications
\* Every step invocation i can take.
Step(i) ==
    \/ \E a \in RoutingArgs : Execute(i, a)
    \/ \E m \in Metadatas : VerifyMetadata(i, m)
    \/ \E n \in Budgets, f \in FsrArgs : ExecSetNumReasks(i, n, f)
    \/ ExecCheckNumReasks(i)
    \/ ExecCreateCall(i)
    \/ \E stream \in BOOLEAN : ExecRoute(i, stream)
    \/ \E resp \in Responses : ServerReturn(i, resp)
    \/ Await(i)
    \/ \E rnd \in Rounds : RunnerStep(i, rnd)
    \/ RunnerAbort(i)
    \/ StreamChunk(i)
    \/ \E rnd \in Rounds : StreamEnd(i, rnd)
    \/ Return(i)
    \/ \E h \in Stacks : SetHistory(i, h)

\* One invocation at a time: a single-threaded caller that awaits or drains
\* each result before it calls the Guard again.
Next == \E i \in Callers : Step(i)

Spec == Init /\ [][Next]_vars

\* =============================================================== claims
\* The Call of an invocation, once it has one.
CallOf(i) == heap[call_log[i]]

\* The invocation has passed the preconditions and the retry-budget check
\* and __exec has chosen its strategy.
Routedp(i) == call_log[i] # 0 /\ pc[i] # "route"

LocalStrategies == {"async", "stream", "sync"}

\* C1: every Call in the Guard's history holds at most (the retry budget
\* recorded in its inputs) + 1 Iterations, whichever strategy filled it.
C1_IterationsWithinBudget ==
    \A n \in DOMAIN history :
        Len(heap[history[n]].iterations) <= heap[history[n]].num_reasks + 1

\* C2: an invocation that passed the preconditions and the retry-budget
\* check enters exactly one of the four strategies, and only that strategy
\* acts for it; an invocation that has not been routed has entered none.
C2_ExactlyOneStrategy ==
    \A i \in Inv :
        /\ strategy[i] \subseteq {"remote"} \cup LocalStrategies
        /\ Routedp(i) => Cardinality(strategy[i]) = 1
        /\ ~Routedp(i) => strategy[i] = {}
        /\ remote_calls[i] > 0 => strategy[i] = {"remote"}
        /\ gen_calls[i] > 0 => strategy[i] \subseteq LocalStrategies
        /\ yielded[i] > 0 => strategy[i] = {"stream"}
        /\ pc[i] = "awaitable" => strategy[i] = {"async"}
        /\ pc[i] = "server" => strategy[i] = {"remote"}
        /\ pc[i] = "stream" => strategy[i] = {"stream"}
        /\ pc[i] = "run" => strategy[i] \in {{"async"}, {"sync"}}

\* C2, its case: a routed invocation has run its one strategy to the end.
C2_Witness ==
    \E i \in Inv : pc[i] = "done" /\ strategy[i] = {"stream"} /\ yielded[i] = MaxChunks

\* C3: a request passes the routing preconditions exactly when a target or
\* an output string is supplied and (an output is supplied, or no target is,
\* or a prompt or a message history is); every other request is rejected
\* with a configuration error, and none that supplies an output string is.
C3_Supplied(x) == x # None
C3_Passes(a) ==
    /\ C3_Supplied(a.llm_api) \/ C3_Supplied(a.llm_output)
    /\ \/ C3_Supplied(a.llm_output)
       \/ ~C3_Supplied(a.llm_api)
       \/ Truthy(a.prompt) \/ Truthy(a.msg_history)
C3_RoutingPreconditions ==
    \A i \in Inv : \A a \in checked[i] :
        /\ C3_Passes(a) => pc[i] = "metadata"
        /\ ~C3_Passes(a) => pc[i] = "done" /\ returned[i] = "RuntimeError"
        /\ C3_Supplied(a.llm_output) => returned[i] # "RuntimeError"

\* C4: when a precondition fails (no target and no output; a target but no
\* output, prompt or message history; a required metadata key missing) the
\* invocation ends with the error in that very step: no Call is created or
\* pushed, the history is as it was, no strategy is entered and neither the
\* target nor the remote service is called.
C4_FailsRouting(a) ==
    \/ ~Truthy(a.llm_api) /\ ~Truthy(a.llm_output)
    \/ Truthy(a.llm_api) /\ ~Truthy(a.llm_output)
       /\ ~Truthy(a.prompt) /\ ~Truthy(a.msg_history)
C4_RejectedBeforeAnyAttempt ==
    [][\A i \in Inv :
         (\/ pc[i] = "idle" /\ \E a \in checked'[i] : C4_FailsRouting(a)
          \/ pc[i] = "metadata"
             /\ \E m \in metadata'[i] : RequiredKeys(validators) \ m # {})
         => /\ pc'[i] = "done"
            /\ returned'[i] \in {"RuntimeError", "ValueError"}
            /\ history' = history /\ heap' = heap
            /\ call_log'[i] = 0 /\ strategy'[i] = {}
            /\ gen_calls'[i] = 0 /\ remote_calls'[i] = 0]_vars

\* C4, its case: an invocation was rejected while the history held a Call.
C4_Witness ==
    \E i \in Inv :
        /\ pc[i] = "done" /\ returned[i] = "ValueError"
        /\ Len(history) = 1 /\ call_log[i] = 0

\* C5: when required metadata keys are missing the invocation fails with an
\* error that names every one of them; when none is missing the metadata
\* check raises nothing.
C5_AllMissingKeysNamed ==
    \A i \in Inv : \A m \in metadata[i] :
        LET missing == RequiredKeys(validators) \ m
        IN  IF missing # {}
            THEN /\ pc[i] = "done" /\ returned[i] = "ValueError"
                 /\ {errmsg[i][n] : n \in DOMAIN errmsg[i]} = missing
            ELSE /\ pc[i] = "exec" /\ returned[i] = "nothing"
                 /\ errmsg[i] = <<>>

\* C5, its case: an error that names two missing keys.
C5_Witness ==
    \E i \in Inv :
        /\ returned[i] = "ValueError" /\ metadata[i] = {{}}
        /\ errmsg[i] = <<"k1", "k2">>

\* C6: remote delegation is selected exactly when a client is configured and
\* the target is supported server-side; a delegated invocation runs no local
\* runner, and one that is not delegated never calls the remote service.
C6_RemoteIffClientAndSupported ==
    \A i \in Inv :
        Routedp(i) =>
            /\ "remote" \in strategy[i]
                   <=> (api_client /\ model_is_supported_server_side(req[i].llm_api))
            /\ "remote" \in strategy[i]
                   => /\ strategy[i] \cap LocalStrategies = {}
                      /\ gen_calls[i] = 0 /\ yielded[i] = 0 /\ round[i] = 0
            /\ "remote" \notin strategy[i] => remote_calls[i] = 0

\* C6, its case: an invocation delegated to the remote service that ended
\* with a non-empty answer after exactly one remote validate call.
C6_Witness ==
    \E i \in Inv :
        /\ pc[i] = "done" /\ strategy[i] = {"remote"} /\ remote_calls[i] = 1
        /\ response[i] = "payload"

\* C7: an asynchronous target always selects the asynchronous strategy and
\* the caller is handed an awaitable, whatever the delegation configuration.
C7_AsyncTargetGetsAwaitable ==
    \A i \in Inv :
        Routedp(i) /\ iscoroutinefunction(req[i].llm_api)
            => strategy[i] = {"async"} /\ returned[i] = "coroutine"

C9_OutcomeIsLastIteration ==
    \A i \in Inv :
        (/\ pc[i] = "done"
         /\ \/ strategy[i] \in {{"sync"}, {"async"}}
            \/ strategy[i] = {"remote"} /\ response[i] = "payload")
        => /\ outcome[i] # {}
           /\ CallOf(i).iterations # <<>> =>
                \A o \in outcome[i] :
                    LET last == CallOf(i).iterations[Len(CallOf(i).iterations)]
                    IN  /\ o.validated_output = last.validated_output
                        /\ o.raw_llm_output = last.raw_output
                        /\ o.validation_passed <=> (last.reasks = 0)

\* C10: an empty remote response yields the failed outcome with the fixed
\* error, null outputs; no Iteration is appended to the Call, the remote
\* service is called once and the target is never called locally.
C10_EmptyResponseIsTerminal ==
    \A i \in Inv :
        response[i] = "empty" =>
            /\ pc[i] = "done" /\ returned[i] = "outcome"
            /\ outcome[i] =
                 {[raw_llm_output |-> None, validated_output |-> None,
                   validation_passed |-> FALSE,
                   error |-> "The response from the server was empty!"]}
            /\ CallOf(i).iterations = <<>>
            /\ remote_calls[i] = 1 /\ gen_calls[i] = 0
            /\ round[i] = 0 /\ yielded[i] = 0

\* C10, its case: a delegated invocation got an empty response.
C10_Witness ==
    \E i \in Inv :
        /\ response[i] = "empty" /\ strategy[i] = {"remote"}
        /\ outcome[i] = {EmptyResponseOutcome}

\* Is sequence s kept in sequence t, element by element in the same order?
RECURSIVE KeptIn(_, _)
KeptIn(s, t) ==
    IF s = <<>> THEN TRUE
    ELSE IF t = <<>> THEN FALSE
    ELSE IF Head(s) = Head(t) THEN KeptIn(Tail(s), Tail(t))
    ELSE KeptIn(s, Tail(t))

\* A step taken by an invocation (and not an assignment to Guard.history).
InvocationStep == pc' # pc \/ round' # round \/ yielded' # yielded

\* C11: the history is append-only under every public operation, assignment
\* to the history property included: each Call once in the history is still
\* in it in the same relative order, and each Iteration once appended to a
\* Call is still in that Call at the same position.
C11_HistoryAppendOnly ==
    [][/\ KeptIn(history, history')
       /\ \A c \in DOMAIN heap :
             /\ c \in DOMAIN heap'
             /\ Len(heap'[c].iterations) >= Len(heap[c].iterations)
             /\ SubSeq(heap'[c].iterations, 1, Len(heap[c].iterations))
                    = heap[c].iterations]_vars

\* C12: an invocation that passed the preconditions and the retry-budget
\* check creates exactly one new Call and pushes it exactly once, before its
\* strategy is chosen; no later step of any invocation (the remote merge
\* included, and an abort or a failed outcome) pushes or removes a Call.
C12_OneCallPushedOnce ==
    [][InvocationStep =>
         IF \E i \in Inv : pc[i] = "create" /\ pc'[i] # "create"
         THEN /\ Len(heap') = Len(heap) + 1
              /\ history' = Append(history, Len(heap'))
              /\ \A i \in Inv : pc[i] = "create" /\ pc'[i] # "create" =>
                     /\ call_log'[i] = Len(heap') /\ strategy'[i] = {}
                     /\ pc'[i] = "route"
         ELSE /\ history' = history
              /\ Len(heap') = Len(heap)
              /\ \A i \in Inv : pc[i] \in {"idle", "metadata", "exec", "check"}
                     => call_log'[i] = 0]_vars

\* C12, its case: a delegated invocation whose merge of a remote history
\* with records raised; its Call is in the history once.
C12_Witness ==
    \E i \in Inv :
        /\ pc[i] = "done" /\ strategy[i] = {"remote"} /\ response[i] = "payload"
        /\ returned[i] = "TypeError" /\ outcome[i] = {}
        /\ history = <<call_log[i]>>

\* What an invocation that is under way does next; starting an invocation and
\* assigning the history are left to the caller.
Progress(i) ==
    \/ \E m \in Metadatas : VerifyMetadata(i, m)
    \/ \E n \in Budgets, f \in FsrArgs : ExecSetNumReasks(i, n, f)
    \/ ExecCheckNumReasks(i)
    \/ ExecCreateCall(i)
    \/ \E stream \in BOOLEAN : ExecRoute(i, stream)
    \/ \E resp \in Responses : ServerReturn(i, resp)
    \/ Await(i)
    \/ \E rnd \in Rounds : RunnerStep(i, rnd)
    \/ RunnerAbort(i)
    \/ StreamChunk(i)
    \/ \E rnd \in Rounds : StreamEnd(i, rnd)
    \/ Return(i)

\* Every call of the target and of the remote service returns, and the caller
\* awaits the coroutine and drains the stream it was handed.
FairSpec == Spec /\ \A i \in Callers : WF_vars(Progress(i))

\* C13: an invocation that passed its preconditions reaches Done (an outcome,
\* or an error raised): a round run when the rounds already made equal the
\* Call's retry budget is the last one, and the invocation ends.
C13_Terminates ==
    /\ [][\A i \in Inv :
            (/\ pc[i] = "run" /\ pc'[i] # "aborted"
             /\ round[i] >= CallOf(i).num_reasks
             /\ heap'[call_log[i]] # heap[call_log[i]])
            => pc'[i] = "done"]_vars
    /\ \A i \in Inv : (pc[i] = "exec") ~> (pc[i] \in {"done", "aborted"})

\* C13, its case: a Runner used up a retry budget of MaxReasks and ended.
C13_Witness ==
    \E i \in Inv :
        /\ pc[i] = "done" /\ strategy[i] \in {{"sync"}, {"async"}}
        /\ CallOf(i).num_reasks = MaxReasks
        /\ Len(CallOf(i).iterations) = MaxReasks + 1

\* ------------------------------------------- concurrent invocations
\* Two threads (or tasks) of the caller invoke the same Guard and their
\* executions interleave at every step.  The requests: a local synchronous
\* target, an asynchronous one, a target supported server-side, and a
\* precomputed output without target; each with a retry budget.
ConcArgs ==
    {[llm_api |-> t, llm_output |-> None, prompt |-> "p", msg_history |-> None] :
        t \in {"sync", "async", "sync_srv"}}
    \cup {[llm_api |-> None, llm_output |-> "out", prompt |-> None,
           msg_history |-> None]}
ConcBudgets == 0..MaxReasks

\* The remote answers: none, or one failed round.
ConcResponses ==
    {resp \in Responses :
        \/ resp.empty
        \/ /\ ~resp.result
           /\ resp.session_history = <<[has_events |-> TRUE, events |-> <<RemoteFail>>]>>}

ConcInit ==
    /\ GuardBuilt
    /\ validators = <<>>
    /\ validator_map = EmptyMap
    /\ base_model = TRUE
    /\ output_type = "dict"
    /\ threads = Inv
    /\ InvIdle

ConcStep(i) ==
    \/ \E a \in ConcArgs : Execute(i, a)
    \/ VerifyMetadata(i, {})
    \/ \E n \in ConcBudgets : ExecSetNumReasks(i, n, None)
    \/ ExecCheckNumReasks(i)
    \/ ExecCreateCall(i)
    \/ \E stream \in BOOLEAN : ExecRoute(i, stream)
    \/ \E resp \in ConcResponses : ServerReturn(i, resp)
    \/ Await(i)
    \/ \E rnd \in Rounds : RunnerStep(i, rnd)
    \/ RunnerAbort(i)
    \/ StreamChunk(i)
    \/ \E rnd \in Rounds : StreamEnd(i, rnd)
    \/ Return(i)

ConcNext == \E i \in Inv : ConcStep(i)

ConcSpec == ConcInit /\ [][ConcNext]_vars

\* Invocation i takes the step.
Stepped(i) == pc'[i] # pc[i] \/ round'[i] # round[i] \/ yielded'[i] # yielded[i]

\* C14: with the executions of two invocations of one Guard interleaved, the
\* call kwargs an invocation's work reads are never those another invocation
\* stored; what an invocation stores is in no other invocation's context and
\* never in the caller's context.
C14_AmbientStateIsolated ==
    /\ \A i \in Inv : seen[i] \subseteq {Unset, i}
    /\ \A j \in Inv : context[j] \in {Unset, j}
    /\ context[CallerContext] = Unset

\* C14, its case: two invocations under way at once, each has stored its call
\* kwargs and its runner has read them.
C14_Witness ==
    /\ pc[1] = "run" /\ pc[2] = "run"
    /\ context[1] = 1 /\ context[2] = 2
    /\ seen[1] = {1} /\ seen[2] = {2}

\* C15: under every interleaving, an Iteration produced by an invocation is
\* appended to the Call that invocation created and to no other: the Call an
\* invocation works on is the one it created, no two invocations work on the
\* same Call, a Call changes only by a step of its own invocation and only by
\* Iterations appended at its end, the runner's round r at position r + 1.
C15_IterationsInOwnCall ==
    [][/\ \A i \in Inv :
            call_log'[i] # call_log[i] =>
                \/ /\ pc[i] = "create" /\ Len(heap') = Len(heap) + 1
                   /\ call_log'[i] = Len(heap')
                \/ pc'[i] = "idle" /\ call_log'[i] = 0
       /\ \A c \in DOMAIN heap :
            heap'[c] # heap[c] =>
                \E i \in Inv :
                    /\ call_log[i] = c /\ Stepped(i)
                    /\ \A j \in Inv \ {i} : call_log[j] # c
                    /\ Len(heap'[c].iterations) > Len(heap[c].iterations)
                    /\ SubSeq(heap'[c].iterations, 1, Len(heap[c].iterations))
                           = heap[c].iterations
                    /\ pc[i] = "run" =>
                           /\ Len(heap[c].iterations) = round[i]
                           /\ Len(heap'[c].iterations) = round[i] + 1]_vars

\* C15, its case: two invocations under way at once, each in its second
\* round with its first Iteration in its own Call.
C15_Witness ==
    /\ pc[1] = "run" /\ pc[2] = "run"
    /\ round[1] = 1 /\ round[2] = 1
    /\ call_log[1] # call_log[2]
    /\ Len(heap[call_log[1]].iterations) = 1
    /\ Len(heap[call_log[2]].iterations) = 1

\* ------------------------------------------------- the public methods
\* __call__: num_reasks: Optional[int] = 1.
CallDefaultNumReasks == 1

\* self._exec_opts.prompt of a Guard built without a prompt.
ExecPrompt == None

\* __call__: the error of a call with neither prompt nor message history.
CallPromptError == "You must provide a prompt if msg_history is empty."

\* The targets handed to the public methods.
ApiTargets == {"sync", "async", "sync_srv"}

\* The arguments of __call__; budget_given with num_reasks = NoReasks is an
\* explicit num_reasks=None.
CallRequests ==
    {c \in [llm_api : ApiTargets, prompt : Prompts, msg_history : {None, "[m]"},
            budget_given : BOOLEAN, num_reasks : Budgets,
            full_schema_reask : FsrArgs] :
        ~c.budget_given => c.num_reasks = NoReasks}

\* The arguments of parse, validate (parse with the same arguments) and
\* invoke (validate with the input string alone); has_msg_history: the
\* keyword arguments hold the key "msg_history".
ParseRequests ==
    {p \in [method : {"parse", "validate", "invoke"}, llm_output : {"", "out"},
            llm_api : {None, "sync"}, has_msg_history : BOOLEAN,
            msg_history : {None, "[m]"}, num_reasks : Budgets,
            full_schema_reask : FsrArgs] :
        /\ ~p.has_msg_history => p.msg_history = None
        /\ p.method = "invoke" =>
              /\ p.llm_api = None /\ ~p.has_msg_history
              /\ p.num_reasks = NoReasks /\ p.full_schema_reask = None}

\* __call__: msg_history = msg_history or [].
OrEmptyList(h) == IF Truthy(h) THEN h ELSE "[]"

\* __call__: the retry budget passed on to _execute.
CallNumReasks(c) ==
    IF c.budget_given THEN c.num_reasks ELSE CallDefaultNumReasks

\* parse: final_num_reasks.
final_num_reasks(num_reasks, guard_n, llm_api) ==
    IF num_reasks # NoReasks THEN num_reasks
    ELSE IF guard_n # NoReasks THEN guard_n
    ELSE IF llm_api = None THEN 0 ELSE 1

\* parse: does kwargs.pop("msg_history") find the key?
ParseHasMsgHistory(p) == p.has_msg_history

\* configure: `if num_reasks:`.
ConfigureSets(n) == n # NoReasks /\ n # 0

\* An invocation ends in the public method itself, with an error.
RaisedAtEntry(i, e, a, error, message) ==
    /\ pc[i] = "idle"
    /\ pc' = [pc EXCEPT ![i] = "done"]
    /\ returned' = [returned EXCEPT ![i] = error]
    /\ errmsg' = [errmsg EXCEPT ![i] = <<message>>]
    /\ checked' = [checked EXCEPT ![i] = {a}]
    /\ entry' = [entry EXCEPT ![i] = e]
    /\ UNCHANGED <<guard_vars, cfg_vars, metadata, req, call_log, strategy,
                   budget, round, remote_calls, gen_calls, response, outcome,
                   yielded, context, seen, fsr, strategy_fsr,
                   remote_history>>

\* Guard.__call__.
GuardCall(i, c) ==
    LET prompt == IF Truthy(c.prompt) THEN c.prompt ELSE ExecPrompt
        msg_history == OrEmptyList(c.msg_history)
        a == [llm_api |-> c.llm_api, llm_output |-> None, prompt |-> prompt,
              msg_history |-> msg_history]
        e == [method |-> "__call__", budget_given |-> c.budget_given,
              full_schema_reask |-> c.full_schema_reask,
              num_reasks_before |-> guard_num_reasks]
    IN  IF prompt = None /\ msg_history = "[]"
        THEN RaisedAtEntry(i, e, a, "RuntimeError", CallPromptError)
        ELSE /\ ExecuteWith(i, a, CallNumReasks(c), c.full_schema_reask)
             /\ entry' = [entry EXCEPT ![i] = e]

\* Guard.parse, and validate and invoke, which end in it.
GuardParse(i, p) ==
    LET a == [llm_api |-> p.llm_api, llm_output |-> p.llm_output,
              prompt |-> ExecPrompt, msg_history |-> p.msg_history]
        e == [method |-> p.method, budget_given |-> p.num_reasks # NoReasks,
              full_schema_reask |-> p.full_schema_reask,
              num_reasks_before |-> guard_num_reasks]
    IN  IF ~ParseHasMsgHistory(p)
        THEN RaisedAtEntry(i, e, a, "KeyError", "msg_history")
        ELSE /\ ExecuteWith(i, a,
                    final_num_reasks(p.num_reasks, guard_num_reasks, p.llm_api),
                    p.full_schema_reask)
             /\ entry' = [entry EXCEPT ![i] = e]

\* Guard.configure(num_reasks=n), called between two invocations; configured
\* keeps the last value a caller configured.
Configure(i, n) ==
    /\ pc[i] = "idle"
    /\ guard_num_reasks' = IF ConfigureSets(n) THEN n ELSE guard_num_reasks
    /\ configured' = IF n # NoReasks THEN n ELSE configured
    /\ UNCHANGED <<api_client, validators, heap, history, inv_vars, ctx_vars,
                   threads, base_model, validator_map, output_type, use_result>>

\* A Guard for string output, or one built from a model class by
\* from_pydantic, used by a caller with one thread.
ApiInit ==
    /\ GuardBuilt
    /\ validators = <<>>
    /\ validator_map = EmptyMap
    /\ base_model \in BOOLEAN
    /\ output_type = (IF base_model THEN "dict" ELSE "str")
    /\ threads = Callers
    /\ InvIdle

ApiStep(i) ==
    \/ \E c \in CallRequests : GuardCall(i, c)
    \/ \E p \in ParseRequests : GuardParse(i, p)
    \/ \E n \in Budgets : Configure(i, n)
    \/ VerifyMetadata(i, {})
    \/ ExecSetNumReasks(i, req[i].num_reasks, fsr[i])
    \/ ExecCheckNumReasks(i)
    \/ ExecCreateCall(i)
    \/ \E stream \in BOOLEAN : ExecRoute(i, stream)
    \/ \E resp \in ConcResponses : ServerReturn(i, resp)
    \/ Await(i)
    \/ \E rnd \in Rounds : RunnerStep(i, rnd)
    \/ RunnerAbort(i)
    \/ StreamChunk(i)
    \/ \E rnd \in Rounds : StreamEnd(i, rnd)
    \/ Return(i)

ApiNext == \E i \in Callers : ApiStep(i)

ApiSpec == ApiInit /\ [][ApiNext]_vars

\* ------------------------------------------------- claims on the public methods
\* The request of C16: a non-empty output string and nothing else.
OutputOnly(a) ==
    /\ a.llm_output = "out" /\ a.llm_api = None
    /\ a.prompt = None /\ a.msg_history = None

\* C16: an invocation through parse, validate or invoke that supplies only a
\* non-empty model output string (no target, no prompt, no message history)
\* passes the routing preconditions instead of failing: while the arguments
\* the entry examined are on record, the invocation has raised nothing.
C16_ParseOutputOnlyPasses ==
    \A i \in Inv : \A a \in checked[i] :
        (entry[i].method \in {"parse", "validate", "invoke"} /\ OutputOnly(a))
            => returned[i] \notin {"KeyError", "RuntimeError", "ValueError"}

\* The value C18 expects of an invocation: the caller's, else whether the
\* Guard was built from a model class.
C18_Expected(i) ==
    IF entry[i].full_schema_reask # None THEN entry[i].full_schema_reask
    ELSE IF base_model THEN "True" ELSE "False"

\* C18: full_schema_reask is resolved once, at the start of the invocation:
\* the caller's explicit value (true or false) when one is given, else true
\* for a Guard built from a model class, else false.  The resolution always
\* yields one of these values (it raises nothing); from the resolution on the
\* invocation holds that value, the Call's inputs record it and the selected
\* strategy is handed it.
C18_FullSchemaReaskResolved ==
    \A i \in Inv :
        entry[i].method # "none" =>
            /\ returned[i] # "AttributeError"
            /\ (pc[i] \in {"check", "create"} \/ call_log[i] # 0)
                   => fsr[i] = C18_Expected(i)
            /\ call_log[i] # 0
                   => CallOf(i).full_schema_reask = C18_Expected(i)
            /\ strategy[i] # {} => strategy_fsr[i] = C18_Expected(i)

\* C19: when the retry budget of an invocation resolves to None, the
\* invocation aborts at the budget check with the internal error of __exec,
\* whose message is none of the messages of the configuration errors (the
\* routing preconditions, the prompt check of __call__, the missing metadata
\* keys); no Call is created or pushed, no strategy is selected and neither
\* the generation target nor the remote service is called.
C19_NoneBudgetIsFatal ==
    [][\A i \in Inv :
          (pc[i] = "check" /\ req[i].num_reasks = NoReasks /\ pc'[i] # "check")
              => /\ pc'[i] = "done"
                 /\ returned'[i] = "RuntimeError"
                 /\ errmsg'[i] = <<NumReasksNoneError>>
                 /\ \A a \in RoutingArgs : RoutingError(a) # NumReasksNoneError
                 /\ CallPromptError # NumReasksNoneError
                 /\ NumReasksNoneError \notin Keys
                 /\ heap' = heap /\ history' = history
                 /\ call_log'[i] = 0 /\ strategy'[i] = {}
                 /\ gen_calls'[i] = 0 /\ remote_calls'[i] = 0]_vars

\* An invocation given the budget None has ended with the internal error and
\* the history is still empty.
C19_Witness ==
    \E i \in Inv :
        /\ pc[i] = "done" /\ req[i].num_reasks = NoReasks
        /\ returned[i] = "RuntimeError" /\ errmsg[i] = <<NumReasksNoneError>>
        /\ heap = <<>> /\ history = <<>> /\ call_log[i] = 0

\* C20: after configure(num_reasks=n) with n >= 0 (0 included), an
\* invocation through __call__ or parse that passes no retry budget of its own
\* runs with n: its Call's inputs record n and its strategy receives n.
C20_ConfiguredBudgetUsed ==
    \A i \in Inv :
        (/\ entry[i].method \in {"__call__", "parse", "validate", "invoke"}
         /\ ~entry[i].budget_given
         /\ configured # NoReasks)
            => /\ call_log[i] # 0 => CallOf(i).num_reasks = configured
               /\ strategy[i] # {} => budget[i] = configured

\* ------------------------------------------------- the validator map
\* The validators a caller registers (each the set of metadata keys it
\* requires) and the values of `on`; "output" stands for the path "$".
UseValidators == {{}, {"k1"}, {"k1", "k2"}}
UseOn == {"output", "prompt"}

\* ValidatorReference: the validator and the path it is declared on.
ValidatorRefs == [v : UseValidators, on : {"$", "prompt"}]

\* What `self.rail.output_type` gives in use_many: guard.py defines no
\* attribute rail, so the read fails unless a base class supplies one.
RailOutputTypes == {"AttributeError", "str", "dict"}

Found(held, v) == \E n \in DOMAIN held : held[n] = v

\* _fill_validator_map: for each reference, held = map.get(ref.on, []); a
\* validator the entry does not hold yet is appended and the entry stored.
RECURSIVE fill_validator_map(_, _)
fill_validator_map(refs, map) ==
    IF refs = <<>> THEN map
    ELSE LET ref == Head(refs)
             held == IF ref.on \in DOMAIN map THEN map[ref.on] ELSE <<>>
         IN  IF Found(held, ref.v)
             THEN fill_validator_map(Tail(refs), map)
             ELSE fill_validator_map(Tail(refs),
                      [path \in DOMAIN map \cup {ref.on} |->
                          IF path = ref.on THEN Append(held, ref.v)
                          ELSE map[path]])

\* The order in which Python iterates over the keys of the map the model
\* builds: "$" is inserted before or after "prompt".
PathOrders(map) ==
    {o \in SeqsUpTo(DOMAIN map, Cardinality(DOMAIN map)) :
        /\ Len(o) = Cardinality(DOMAIN map)
        /\ \A a, b \in DOMAIN o : a # b => o[a] # o[b]}

RECURSIVE Flatten(_, _)
Flatten(order, map) ==
    IF order = <<>> THEN <<>>
    ELSE map[Head(order)] \o Flatten(Tail(order), map)

\* Faulty variant: the entry of the path is stored and the validator is not
\* appended to it.
add_validator_entry_only(map, on, v) ==
    LET path == IF on = "output" THEN "$" ELSE on
        held == IF path \in DOMAIN map THEN map[path] ELSE <<>>
    IN  [q \in DOMAIN map \cup {path} |-> IF q = path THEN held ELSE map[q]]

\* __add_validator, the validator map: `if on == "output": on = "$"`,
\* self._validator_map[on] = self._validator_map.get(on, []) and
\* self._validator_map[on].append(validator).
add_validator(map, on, v) ==
    LET path == IF on = "output" THEN "$" ELSE on
        held == IF path \in DOMAIN map THEN map[path] ELSE <<>>
    IN  [q \in DOMAIN map \cup {path} |->
            IF q = path THEN Append(held, v) ELSE map[q]]

\* Faulty variant: the validator is not appended to the flat list.
extend_validators_skipped(list, added) == list

\* __add_validator, the flat list: self._validators.append(validator), for
\* each validator added.
extend_validators(list, added) == list \o added

\* __add_validator, the type test that precedes every assignment: the error it
\* raises, or "ok".  _output_type is declared without a value and assigned by
\* the factories alone.
AddValidatorError(type) ==
    IF type = "unset" THEN "AttributeError"
    ELSE IF type # "str" THEN "RuntimeError"
    ELSE "ok"

\* use_many, the loop: the validators before the first one get_validator
\* rejects (fail_at = 0: none is rejected) are added in order.
RECURSIVE add_validators(_, _, _)
add_validators(map, on, vs) ==
    IF vs = <<>> THEN map
    ELSE add_validators(add_validator(map, on, Head(vs)), on, Tail(vs))

Added(vs, fail_at) ==
    IF fail_at = 0 THEN vs ELSE SubSeq(vs, 1, fail_at - 1)

\* Guard.use(validator, on=on); hydrates: does get_validator return?
Use(v, on, hydrates) ==
    /\ Len(validators) < MaxValidators
    /\ IF ~hydrates
       THEN /\ use_result' = "get_validator"
            /\ UNCHANGED <<validator_map, validators>>
       ELSE IF AddValidatorError(output_type) # "ok"
       THEN /\ use_result' = AddValidatorError(output_type)
            /\ UNCHANGED <<validator_map, validators>>
       ELSE /\ validator_map' = add_validator(validator_map, on, v)
            /\ validators' = extend_validators(validators, <<v>>)
            /\ use_result' = "ok"
    /\ UNCHANGED <<api_client, guard_num_reasks, heap, history, inv_vars,
                   ctx_vars, threads, base_model, configured, output_type>>

\* Guard.use_many(*vs, on=on).
UseMany(vs, on, rail, fail_at) ==
    /\ Len(validators) + Len(vs) <= MaxValidators
    /\ fail_at \in 0..Len(vs)
    /\ LET added == Added(vs, fail_at)
       IN  IF rail = "AttributeError"
           THEN /\ use_result' = "AttributeError"
                /\ UNCHANGED <<validator_map, validators>>
           ELSE IF rail # "str"
           THEN /\ use_result' = "RuntimeError"
                /\ UNCHANGED <<validator_map, validators>>
           ELSE IF vs = <<>>
           THEN /\ use_result' = "ok"
                /\ UNCHANGED <<validator_map, validators>>
           ELSE IF fail_at = 1
           THEN /\ use_result' = "get_validator"
                /\ UNCHANGED <<validator_map, validators>>
           ELSE IF AddValidatorError(output_type) # "ok"
           THEN /\ use_result' = AddValidatorError(output_type)
                /\ UNCHANGED <<validator_map, validators>>
           ELSE /\ validator_map' = add_validators(validator_map, on, added)
                /\ validators' = extend_validators(validators, added)
                /\ use_result' = IF fail_at = 0 THEN "ok" ELSE "get_validator"
    /\ UNCHANGED <<api_client, guard_num_reasks, heap, history, inv_vars,
                   ctx_vars, threads, base_model, configured, output_type>>

\* A Guard after construction: Guard(validators=refs), whose __init__ fills
\* the map and the validator list from the references and assigns no output
\* type, or a Guard of a factory, which then assigns the map and the output
\* type of the schema it compiled.
UseInit ==
    /\ GuardBuilt
    /\ base_model = FALSE
    /\ threads = Callers
    /\ InvIdle
    /\ \E refs \in SeqsUpTo(ValidatorRefs, 2) :
          LET filled == fill_validator_map(refs, EmptyMap)
          IN  /\ \E o \in PathOrders(filled) : validators = Flatten(o, filled)
              /\ \/ validator_map = filled /\ output_type = "unset"
                 \/ /\ \A n \in DOMAIN refs : refs[n].on = "$"
                    /\ validator_map = MapOf([n \in DOMAIN refs |-> refs[n].v])
                    /\ output_type \in {"str", "dict"}

UseNext ==
    \/ \E v \in UseValidators, on \in UseOn, hydrates \in BOOLEAN :
          Use(v, on, hydrates)
    \/ \E vs \in SeqsUpTo(UseValidators, 2), on \in UseOn,
          rail \in RailOutputTypes, fail_at \in 0..2 :
          UseMany(vs, on, rail, fail_at)

UseSpec == UseInit /\ [][UseNext]_vars

C21_OwnBudgetUnderInterleaving ==
    \A i \in Inv :
        /\ call_log[i] # 0 => CallOf(i).num_reasks = req[i].num_reasks
        /\ strategy[i] # {} => budget[i] = req[i].num_reasks

\* ------------------------------------------------- claims on the remote merge
\* C22: on a non-empty remote response the merge appends to the invocation's
\* Call exactly one Iteration per per-round record of the remote history, in
\* the order the service returned them (entries in order, records of an entry
\* in order), skipping the entries without a record list; the Call, new when
\* the merge starts, holds these Iterations and nothing else, and the
\* invocation returns its outcome.
C22_MergeAppendsEveryRecord ==
    \A i \in Inv :
        (pc[i] = "done" /\ strategy[i] = {"remote"} /\ response[i] = "payload")
            => /\ returned[i] = "outcome"
               /\ CallOf(i).iterations = MergedIterations(remote_history[i])

\* The validators a validator map holds, whatever their paths.
ValidatorsOf(map) ==
    UNION {{map[path][n] : n \in DOMAIN map[path]} : path \in DOMAIN map}

\* C23: after construction and after any sequence of use and use_many calls,
\* the flat list the metadata check reads (_validators) holds exactly the
\* validators of the validator map the strategies run (_validator_map): none
\* that will run is missing from the list and none is listed that will not
\* run.
C23_ListMatchesMap ==
    {validators[n] : n \in DOMAIN validators} = ValidatorsOf(validator_map)

\* Validators were added on two paths by use and use_many, the last call
\* failing after its first validator, and the list holds them all.
C23_Witness ==
    /\ use_result = "get_validator"
    /\ DOMAIN validator_map = {"$", "prompt"}
    /\ Len(validators) = 2
    /\ Cardinality(ValidatorsOf(validator_map)) = 2

\* ------------------------------------------------- claims on the work's context
\* C24: for every strategy, the generation and validation work of an
\* invocation runs inside the execution context _execute created for it: the
\* call kwargs (and tracer) that work reads are the ones the invocation
\* stored at its start, also when the work runs after _execute has returned
\* (the awaited coroutine, the drained stream).
C24_WorkReadsOwnContext ==
    \A i \in Inv : seen[i] \subseteq {i}

\* ------------------------------------------------- claims on failed invocations
\* An invocation has ended with an error before any strategy was chosen.
FailedBeforeStrategy(i) ==
    /\ entry[i].method # "none" /\ pc[i] = "done" /\ strategy[i] = {}
    /\ returned[i] \in {"RuntimeError", "ValueError", "KeyError",
                        "AttributeError"}

\* C25: an invocation that fails before its strategy starts (a failed
\* precondition, missing metadata keys, an undefined retry budget) leaves the
\* Guard's configuration as it was: _num_reasks is what it was when the
\* invocation was entered.  (No step of an invocation assigns the validator
\* map, the validator list or the execution options.)
C25_FailureKeepsConfiguration ==
    \A i \in Inv :
        FailedBeforeStrategy(i)
            => guard_num_reasks = entry[i].num_reasks_before

====
